---- MODULE Spec2Model ----
(***************************************************************************)
(* A state-machine model of provision.py, the CloudFormation provisioning *)
(* wrapper: template validation, the existence probe, the create and      *)
(* update paths, the status-polling waiter and the tag reconciler.        *)
(*                                                                         *)
(* The provider is opaque: every remote call either succeeds or raises a  *)
(* botocore ClientError with one of the messages of Messages, and every   *)
(* status query answers with any status of Statuses.  sys.exit raises     *)
(* SystemExit, which no handler of the program catches, so it ends the    *)
(* process.  No handler re-raises a ClientError, so the handler of a      *)
(* raise is the try block that lexically encloses the call (for a raise   *)
(* inside wait_for_stack, which has no try block: the one enclosing the   *)
(* call of wait_for_stack).                                               *)
(***************************************************************************)
EXTENDS Integers, Sequences, FiniteSets, TLC

\* ------------------------------------------------------------------------
\* Bounds of the exploration.

\* At most this many status queries are explored in one call of
\* wait_for_stack.
MaxQueries == 3

\* ------------------------------------------------------------------------
\* Strings: a string of the program is modelled as the sequence of its
\* pieces (characters for names, words for messages).

\* the `in` operator on two strings: sub occurs in s
StrIn(sub, s) ==
    \E k \in 0..(Len(s) - Len(sub)) : SubSeq(s, k + 1, k + Len(sub)) = sub

\* a comparison of the whole string in place of str.endswith
EndsWithEq(s, suffix) == s = suffix

\* a test for the suffix anywhere in the string in place of str.endswith
EndsWithAnywhere(s, suffix) == StrIn(suffix, s)

\* str.endswith
EndsWith(s, suffix) ==
    /\ Len(s) >= Len(suffix)
    /\ SubSeq(s, Len(s) - Len(suffix) + 1, Len(s)) = suffix

\* the suffix literals the handlers test
DoesNotExist == <<"does", "not", "exist">>

ToBePerformed == <<"to", "be", "performed.">>

\* ------------------------------------------------------------------------
\* The run configuration (module globals read from the environment).

DEBUG == TRUE

TEMPLATE == "template-body"

BILLING_ENV == "billing-env"

TEAM == "team"

\* STACK_NAME is handed to the provider as StackName, which accepts the name
\* of a stack or its unique id; the stack the provider describes carries
\* the name.
DemoName == <<"d", "e", "m", "o">>

DemoId == <<"s", "/", "d", "e", "m", "o", "/", "1">>

StackNameValues == {DemoName, DemoId}

\* ------------------------------------------------------------------------
\* The provider.

\* messages of the ClientErrors the provider raises (str(err))
MsgNotExist == <<"Stack", "with", "id", "demo", "does", "not", "exist">>

MsgNotExistMid == <<"Role", "does", "not", "exist", "or", "is", "not", "assumable">>

MsgNoUpdates == <<"No", "updates", "are", "to", "be", "performed.">>

MsgDenied == <<"User", "is", "not", "authorized">>

Messages == {MsgNotExist, MsgNotExistMid, MsgNoUpdates, MsgDenied}

\* wait_list with one status left out
wait_list_short ==
    { "CREATE_IN_PROGRESS",
      "DELETE_COMPLETE_CLEANUP_IN_PROGRESS",
      "DELETE_IN_PROGRESS",
      "UPDATE_COMPLETE_CLEANUP_IN_PROGRESS",
      "UPDATE_ROLLBACK_COMPLETE_CLEANUP_IN_PROGRESS",
      "ROLLBACK_COMPLETE",
      "ROLLBACK_IN_PROGRESS" }

\* the statuses in which the waiter keeps polling
wait_list ==
    { "CREATE_IN_PROGRESS",
      "DELETE_COMPLETE_CLEANUP_IN_PROGRESS",
      "DELETE_IN_PROGRESS",
      "UPDATE_IN_PROGRESS",
      "UPDATE_COMPLETE_CLEANUP_IN_PROGRESS",
      "UPDATE_ROLLBACK_COMPLETE_CLEANUP_IN_PROGRESS",
      "ROLLBACK_COMPLETE",
      "ROLLBACK_IN_PROGRESS" }

\* the statuses a status query can report: those the program names and the
\* settled statuses of a created, an updated and a failed stack
Statuses ==
    { "CREATE_IN_PROGRESS",
      "DELETE_COMPLETE_CLEANUP_IN_PROGRESS",
      "DELETE_IN_PROGRESS",
      "UPDATE_IN_PROGRESS",
      "UPDATE_COMPLETE_CLEANUP_IN_PROGRESS",
      "UPDATE_ROLLBACK_COMPLETE_CLEANUP_IN_PROGRESS",
      "ROLLBACK_COMPLETE",
      "ROLLBACK_IN_PROGRESS",
      "CREATE_COMPLETE",
      "UPDATE_COMPLETE",
      "CREATE_FAILED" }

\* the answers of describe_stacks(StackName=...) for an existing stack: the
\* one stack of that name or id
DescribeResponses(stack_name) == { <<[StackName |-> DemoName]>> }

\* The provider of Spec is opaque.  The provider of SpecRuns keeps the one
\* stack the runs are about: whether it exists, its template, tags and
\* status, and whether it finds the template of the runs valid.  It accepts
\* a create only while no stack of the name exists, refuses an update while
\* the stack is in progress, and answers an update that changes neither
\* template nor tags with "No updates are to be performed.".
Opaque == [kind |-> "opaque"]

MsgAlreadyExists == <<"Stack", "[demo]", "already", "exists">>

MsgNotUpdatable ==
    <<"Stack", "is", "in", "progress", "and", "can", "not", "be", "updated">>

MsgInvalid == <<"Template", "format", "error">>

ProviderMessages == Messages \cup {MsgAlreadyExists, MsgNotUpdatable, MsgInvalid}

ProviderInProgress == {"CREATE_IN_PROGRESS", "UPDATE_IN_PROGRESS"}

\* an outcome of a request: the message of the error raised (none: the
\* request is accepted) and the provider afterwards
Outcome(m, p) == [msg |-> m, next |-> p]

Accepted(outcomes) == {o \in outcomes : o.msg = << >>}

Rejected(outcomes) == {o \in outcomes : o.msg # << >>}

Opaquely(p) == {Outcome(<< >>, p)} \cup {Outcome(m, p) : m \in Messages}

OnValidate(p, params) ==
    IF p.kind = "opaque" THEN Opaquely(p)
    ELSE IF p.valid THEN {Outcome(<< >>, p)}
    ELSE {Outcome(MsgInvalid, p)}

OnCreate(p, params) ==
    IF p.kind = "opaque" THEN Opaquely(p)
    ELSE IF p.exists THEN {Outcome(MsgAlreadyExists, p)}
    ELSE {Outcome(<< >>, [p EXCEPT !.exists = TRUE,
                                   !.template = params.TemplateBody,
                                   !.tags = << >>,
                                   !.status = "CREATE_IN_PROGRESS"])}

\* an update of the template (TemplateBody) or of the tags alone
\* (UsePreviousTemplate, Tags)
OnUpdate(p, params) ==
    IF p.kind = "opaque" THEN Opaquely(p)
    ELSE LET template == IF "TemplateBody" \in DOMAIN params
                         THEN params.TemplateBody ELSE p.template
             tags == IF "Tags" \in DOMAIN params THEN params.Tags ELSE p.tags
         IN  IF ~p.exists THEN {Outcome(MsgNotExist, p)}
             ELSE IF p.status \in ProviderInProgress THEN {Outcome(MsgNotUpdatable, p)}
             ELSE IF template = p.template /\ tags = p.tags THEN {Outcome(MsgNoUpdates, p)}
             ELSE {Outcome(<< >>, [p EXCEPT !.template = template,
                                            !.tags = tags,
                                            !.status = "UPDATE_IN_PROGRESS"])}

DescribeAnswers(p, stack_name) ==
    IF p.kind = "opaque" \/ p.exists THEN DescribeResponses(stack_name) ELSE {}

DescribeErrors(p) ==
    IF p.kind = "opaque" THEN Messages
    ELSE IF p.exists THEN {}
    ELSE {MsgNotExist}

StatusAnswers(p) ==
    IF p.kind = "opaque" THEN Statuses
    ELSE IF p.exists THEN {p.status}
    ELSE {}

Functions ==
    { "provision", "validate_template", "wait_for_stack", "set_tags",
      "update_stack", "create_stack" }

\* ------------------------------------------------------------------------
\* The observable history of a run.

Call(fn) == [kind |-> "call", name |-> fn]

Return(fn, to, value) == [kind |-> "return", name |-> fn, to |-> to, value |-> value]

Request(api, by, params) == [kind |-> "request", name |-> api, by |-> by, params |-> params]

Error(api, handler, msg) == [kind |-> "error", name |-> api, handler |-> handler, msg |-> msg]

\* one status query of the waiter; consecutive queries of one call of
\* wait_for_stack are recorded once
Poll(stack_name) ==
    Request("describe_stacks", "wait_for_stack", [StackName |-> stack_name])

IsPoll(e) == e.kind = "request" /\ e.by = "wait_for_stack"

AppendPoll(l, stack_name) ==
    IF Len(l) > 0 /\ IsPoll(l[Len(l)]) THEN l ELSE Append(l, Poll(stack_name))

VARIABLES
    STACK_NAME,   \* the environment's STACK_NAME
    pc,           \* the position of the run
    frames,       \* the positions the active calls return to, innermost first
    ret,          \* the local `ret` of each function
    validated,    \* provision's `validated`
    check,        \* provision's check['Stacks']
    loop_i,       \* how many stacks of check provision's loop has visited
    err,          \* the message of the ClientError being handled
    wait_time,    \* wait_for_stack's wait_time
    answers,      \* the statuses answered in the current call of wait_for_stack
    queries,      \* the status queries issued in that call
    sleeps,       \* the sleeps taken in that call
    log,          \* the calls, requests, errors and returns of the run
    exited,       \* the process has ended
    exitCode,     \* its exit status
    observed,     \* the status the latest status query of the run answered
    provider,     \* the provider
    other,        \* the state of the run that is not running (SpecRuns)
    handover      \* how the two runs have taken turns (SpecRuns)

vars ==
    << STACK_NAME, pc, frames, ret, validated, check, loop_i, err, wait_time,
       answers, queries, sleeps, log, exited, exitCode, observed, provider,
       other, handover >>

waitVars == << wait_time, answers, queries, sleeps >>

provVars == << validated, check, loop_i >>

exitVars == << exited, exitCode >>

runsVars == << other, handover >>

\* no second run
NoRun == [pc |-> "none"]

\* a run before its first step
InitRun(stack_name) ==
    /\ STACK_NAME = stack_name
    /\ pc = "main"
    /\ frames = << >>
    /\ ret = [f \in Functions |-> FALSE]
    /\ validated = FALSE
    /\ check = << >>
    /\ loop_i = 0
    /\ err = << >>
    /\ wait_time = 0
    /\ answers = << >>
    /\ queries = 0
    /\ sleeps = 0
    /\ log = << >>
    /\ exited = FALSE
    /\ exitCode = 0
    /\ observed = "NONE"

Init ==
    /\ \E n \in StackNameValues : InitRun(n)
    /\ provider = Opaque
    /\ other = NoRun
    /\ handover = [mode |-> "none"]

\* ------------------------------------------------------------------------
\* Shared steps.

\* sys.exit(err): SystemExit reaches the top level, the process prints the
\* error and ends with status 1
SysExit ==
    /\ pc' = "exit"
    /\ exited' = TRUE
    /\ exitCode' = 1

\* a call of wait_for_stack(STACK_NAME, t) that returns to position back
CallWait(t, back) ==
    /\ pc' = "wait_cond"
    /\ frames' = <<back>> \o frames
    /\ ret' = [ret EXCEPT !["wait_for_stack"] = FALSE]
    /\ wait_time' = t
    /\ answers' = << >>
    /\ queries' = 0
    /\ sleeps' = 0

\* a call of set_tags(STACK_NAME, BILLING_ENV, TEAM) that returns to back
CallSetTags(back) ==
    /\ pc' = "set_tags"
    /\ frames' = <<back>> \o frames
    /\ ret' = [ret EXCEPT !["set_tags"] = FALSE]

\* the handler of a ClientError raised in wait_for_stack called from the
\* call site that continues at position back
WaitHandler(back) ==
    CASE back \in {"update_request", "update_tags"} -> "update_except"
      [] back \in {"set_tags_request", "set_tags_done"} -> "set_tags_except"
      [] back = "create_tags" -> "create_except"

HandlerName(h) ==
    CASE h = "update_except" -> "update_stack"
      [] h = "set_tags_except" -> "set_tags"
      [] h = "create_except" -> "create_stack"

\* return of the running function fn with value v to its caller
ReturnTo(fn, v) ==
    /\ pc' = Head(frames)
    /\ frames' = Tail(frames)
    /\ log' = Append(log, Return(fn, Head(frames), v))

\* ------------------------------------------------------------------------
\* provision and validate_template.

\* the script starts: provision(TEMPLATE) runs up to its call of
\* validate_template
Main ==
    /\ pc = "main"
    /\ pc' = "validate_template"
    /\ ret' = [ret EXCEPT !["provision"] = FALSE, !["validate_template"] = FALSE]
    /\ log' = log \o <<Call("provision"), Call("validate_template")>>
    /\ UNCHANGED << STACK_NAME, observed, provider, runsVars, frames, provVars, err, waitVars, exitVars >>

\* conn.validate_template(TemplateBody=template)
ValidateTemplate ==
    /\ pc = "validate_template"
    /\ LET req == Request("validate_template", "validate_template",
                          [TemplateBody |-> TEMPLATE])
           outcomes == OnValidate(provider, req.params)
       IN  \/ \E o \in Accepted(outcomes) :
              /\ provider' = o.next
              /\ pc' = "validate_return"
              /\ ret' = [ret EXCEPT !["validate_template"] = TRUE]
              /\ log' = Append(log, req)
              /\ err' = err
           \/ \E o \in Rejected(outcomes) :
              /\ provider' = o.next
              /\ pc' = "validate_except"
              /\ err' = o.msg
              /\ log' = log \o <<req, Error("validate_template", "validate_template", o.msg)>>
              /\ ret' = ret
    /\ UNCHANGED << STACK_NAME, observed, runsVars, frames, provVars, waitVars, exitVars >>

\* validate_template's handler returns instead of ending the process
ValidateExceptReturns ==
    /\ pc = "validate_except"
    /\ pc' = "validate_return"
    /\ err' = << >>
    /\ UNCHANGED << STACK_NAME, observed, provider, runsVars, frames, ret, provVars, waitVars, log, exitVars >>

\* validate_template's handler: sys.exit(err)
ValidateExcept ==
    /\ pc = "validate_except"
    /\ SysExit
    /\ UNCHANGED << STACK_NAME, observed, provider, runsVars, frames, ret, provVars, err, waitVars, log >>

\* validate_template returns ret; provision tests `validated`
ValidateReturn ==
    /\ pc = "validate_return"
    /\ validated' = ret["validate_template"]
    /\ pc' = IF validated' THEN "describe_stacks" ELSE "provision_return"
    /\ log' = Append(log, Return("validate_template", "provision", ret["validate_template"]))
    /\ UNCHANGED << STACK_NAME, observed, provider, runsVars, frames, ret, check, loop_i, err, waitVars, exitVars >>

\* the existence probe: check = conn.describe_stacks(StackName=STACK_NAME)
DescribeStacks ==
    /\ pc = "describe_stacks"
    /\ LET req == Request("describe_stacks", "provision", [StackName |-> STACK_NAME])
       IN  \/ \E r \in DescribeAnswers(provider, STACK_NAME) :
              /\ check' = r
              /\ loop_i' = 0
              /\ pc' = "loop"
              /\ log' = Append(log, req)
              /\ err' = err
           \/ \E m \in DescribeErrors(provider) :
              /\ pc' = "provision_except"
              /\ err' = m
              /\ log' = log \o <<req, Error("describe_stacks", "provision", m)>>
              /\ UNCHANGED << check, loop_i >>
    /\ UNCHANGED << STACK_NAME, observed, provider, runsVars, frames, ret, validated,
                    waitVars, exitVars >>

\* for stack in check['Stacks']: if STACK_NAME in stack['StackName']:
\* update_stack(template)
Loop ==
    /\ pc = "loop"
    /\ IF loop_i < Len(check)
       THEN /\ loop_i' = loop_i + 1
            /\ IF StrIn(STACK_NAME, check[loop_i + 1].StackName)
               THEN /\ pc' = "update_stack"
                    /\ frames' = <<"loop">> \o frames
                    /\ log' = Append(log, Call("update_stack"))
               ELSE /\ pc' = "loop"
                    /\ UNCHANGED << frames, log >>
       ELSE /\ pc' = "provision_return"
            /\ UNCHANGED << loop_i, frames, log >>
    /\ UNCHANGED << STACK_NAME, observed, provider, runsVars, ret, validated, check, err, waitVars, exitVars >>

\* provision's handler: create_stack on "does not exist", sys.exit otherwise
ProvisionExcept ==
    /\ pc = "provision_except"
    /\ IF EndsWith(err, DoesNotExist)
       THEN /\ pc' = "create_stack"
            /\ frames' = <<"provision_created">> \o frames
            /\ log' = Append(log, Call("create_stack"))
            /\ err' = << >>
            /\ UNCHANGED exitVars
       ELSE /\ SysExit
            /\ UNCHANGED << frames, log, err >>
    /\ UNCHANGED << STACK_NAME, observed, provider, runsVars, ret, provVars, waitVars >>

\* provision's handler after create_stack returned: ret = True
ProvisionCreated ==
    /\ pc = "provision_created"
    /\ pc' = "provision_return"
    /\ ret' = [ret EXCEPT !["provision"] = TRUE]
    /\ UNCHANGED << STACK_NAME, observed, provider, runsVars, frames, provVars, err, waitVars, log, exitVars >>

\* provision returns and the script ends
ProvisionReturn ==
    /\ pc = "provision_return"
    /\ pc' = "exit"
    /\ exited' = TRUE
    /\ exitCode' = 0
    /\ log' = Append(log, Return("provision", "main", ret["provision"]))
    /\ UNCHANGED << STACK_NAME, observed, provider, runsVars, frames, ret, provVars, err, waitVars >>

\* ------------------------------------------------------------------------
\* wait_for_stack.

\* the locals of wait_for_stack end with its call
WaitLocalsGone ==
    /\ wait_time' = 0
    /\ answers' = << >>
    /\ queries' = 0
    /\ sleeps' = 0

\* one conn.describe_stacks(StackName=stack_name)['Stacks'][0]['StackStatus']
\* of the waiter: it answers status s and the waiter goes to position next[s],
\* or it raises and the caller's handler takes over
StatusQuery(next) ==
    /\ queries < MaxQueries
    /\ \/ \E s \in StatusAnswers(provider) :
          /\ answers' = Append(answers, s)
          /\ queries' = queries + 1
          /\ pc' = next[s]
          /\ log' = AppendPoll(log, STACK_NAME)
          /\ observed' = s
          /\ UNCHANGED << frames, err, wait_time, sleeps >>
       \/ \E m \in DescribeErrors(provider) :
          /\ pc' = WaitHandler(Head(frames))
          /\ frames' = Tail(frames)
          /\ err' = m
          /\ log' = Append(AppendPoll(log, STACK_NAME),
                           Error("describe_stacks", HandlerName(WaitHandler(Head(frames))), m))
          /\ WaitLocalsGone
          /\ observed' = observed
    /\ UNCHANGED << STACK_NAME, provider, runsVars, ret, provVars, exitVars >>

\* the loop condition: the status is queried and tested against wait_list
WaitCond ==
    /\ pc = "wait_cond"
    /\ StatusQuery([s \in Statuses |->
                       IF s \in wait_list
                       THEN (IF DEBUG THEN "wait_debug" ELSE "wait_sleep")
                       ELSE "wait_return"])

\* the loop body under DEBUG: the status is queried again for the message
WaitDebug ==
    /\ pc = "wait_debug"
    /\ StatusQuery([s \in Statuses |-> "wait_sleep"])

\* time.sleep(wait_time)
WaitSleep ==
    /\ pc = "wait_sleep"
    /\ pc' = "wait_cond"
    /\ sleeps' = sleeps + 1
    /\ UNCHANGED << STACK_NAME, observed, provider, runsVars, frames, ret, provVars, err, wait_time, answers,
                    queries, log, exitVars >>

\* ret = True; return ret
WaitReturn ==
    /\ pc = "wait_return"
    /\ ret' = [ret EXCEPT !["wait_for_stack"] = TRUE]
    /\ ReturnTo("wait_for_stack", TRUE)
    /\ WaitLocalsGone
    /\ UNCHANGED << STACK_NAME, observed, provider, runsVars, provVars, err, exitVars >>

\* ------------------------------------------------------------------------
\* set_tags.

\* the tag set with the billing value as Project
TagsProjectMixedUp(stack_name, tag_value, team) ==
    << [Key |-> "Billing_Env", Value |-> tag_value],
       [Key |-> "Team", Value |-> team],
       [Key |-> "Project", Value |-> tag_value] >>

\* the fixed tag set
Tags(stack_name, tag_value, team) ==
    << [Key |-> "Billing_Env", Value |-> tag_value],
       [Key |-> "Team", Value |-> team],
       [Key |-> "Project", Value |-> stack_name] >>

\* set_tags up to its first wait_for_stack(stack_name, 10)
SetTags ==
    /\ pc = "set_tags"
    /\ CallWait(10, "set_tags_request")
    /\ UNCHANGED << STACK_NAME, observed, provider, runsVars, provVars, err, log, exitVars >>

\* conn.Stack(stack_name).update(...), then wait_for_stack(stack_name, 10)
SetTagsRequest ==
    /\ pc = "set_tags_request"
    /\ LET req == Request("Stack.update", "set_tags",
                          [StackName |-> STACK_NAME,
                           Capabilities |-> <<"CAPABILITY_IAM">>,
                           UsePreviousTemplate |-> TRUE,
                           Tags |-> Tags(STACK_NAME, BILLING_ENV, TEAM)])
           outcomes == OnUpdate(provider, req.params)
       IN  \/ \E o \in Accepted(outcomes) :
              /\ provider' = o.next
              /\ CallWait(10, "set_tags_done")
              /\ log' = Append(log, req)
              /\ err' = err
           \/ \E o \in Rejected(outcomes) :
              /\ provider' = o.next
              /\ pc' = "set_tags_except"
              /\ err' = o.msg
              /\ log' = log \o <<req, Error("Stack.update", "set_tags", o.msg)>>
              /\ UNCHANGED << frames, ret, waitVars >>
    /\ UNCHANGED << STACK_NAME, observed, runsVars, provVars, exitVars >>

\* ret = True; return ret
SetTagsDone ==
    /\ pc = "set_tags_done"
    /\ ret' = [ret EXCEPT !["set_tags"] = TRUE]
    /\ ReturnTo("set_tags", TRUE)
    /\ UNCHANGED << STACK_NAME, observed, provider, runsVars, provVars, err, waitVars, exitVars >>

\* set_tags' handler without its test of the message
SetTagsExceptExits ==
    /\ pc = "set_tags_except"
    /\ SysExit
    /\ UNCHANGED << STACK_NAME, observed, provider, runsVars, frames, ret, provVars, err, waitVars, log >>

\* set_tags' handler: "to be performed." is tolerated and ret is returned
\* as it stands, any other error is sys.exit(err)
SetTagsExcept ==
    /\ pc = "set_tags_except"
    /\ IF EndsWith(err, ToBePerformed)
       THEN /\ ReturnTo("set_tags", ret["set_tags"])
            /\ err' = << >>
            /\ UNCHANGED exitVars
       ELSE /\ SysExit
            /\ UNCHANGED << frames, log, err >>
    /\ UNCHANGED << STACK_NAME, observed, provider, runsVars, ret, provVars, waitVars >>

\* ------------------------------------------------------------------------
\* update_stack.

\* update_stack without the wait before its request
UpdateStackNoWait ==
    /\ pc = "update_stack"
    /\ pc' = "update_request"
    /\ UNCHANGED << STACK_NAME, observed, provider, runsVars, frames, ret, provVars, err, waitVars, log, exitVars >>

\* update_stack up to its first wait_for_stack(STACK_NAME, 10)
UpdateStack ==
    /\ pc = "update_stack"
    /\ CallWait(10, "update_request")
    /\ UNCHANGED << STACK_NAME, observed, provider, runsVars, provVars, err, log, exitVars >>

\* conn.update_stack(...), then wait_for_stack(STACK_NAME, 10)
UpdateRequest ==
    /\ pc = "update_request"
    /\ LET req == Request("update_stack", "update_stack",
                          [StackName |-> STACK_NAME,
                           Capabilities |-> <<"CAPABILITY_IAM">>,
                           TemplateBody |-> TEMPLATE])
           outcomes == OnUpdate(provider, req.params)
       IN  \/ \E o \in Accepted(outcomes) :
              /\ provider' = o.next
              /\ CallWait(10, "update_tags")
              /\ log' = Append(log, req)
              /\ err' = err
           \/ \E o \in Rejected(outcomes) :
              /\ provider' = o.next
              /\ pc' = "update_except"
              /\ err' = o.msg
              /\ log' = log \o <<req, Error("update_stack", "update_stack", o.msg)>>
              /\ UNCHANGED << frames, ret, waitVars >>
    /\ UNCHANGED << STACK_NAME, observed, runsVars, provVars, exitVars >>

\* set_tags(STACK_NAME, BILLING_ENV, TEAM) after the update was applied
UpdateTags ==
    /\ pc = "update_tags"
    /\ CallSetTags("update_done")
    /\ log' = Append(log, Call("set_tags"))
    /\ UNCHANGED << STACK_NAME, observed, provider, runsVars, provVars, err, waitVars, exitVars >>

\* update_stack's handler without its call of set_tags
UpdateExceptNoTags ==
    /\ pc = "update_except"
    /\ pc' = "update_done"
    /\ err' = << >>
    /\ UNCHANGED << STACK_NAME, observed, provider, runsVars, frames, ret, provVars, waitVars, log, exitVars >>

\* update_stack without a handler: the error reaches provision's handler
UpdateExceptPropagates ==
    /\ pc = "update_except"
    /\ pc' = "provision_except"
    /\ frames' = Tail(frames)
    /\ UNCHANGED << STACK_NAME, observed, provider, runsVars, ret, provVars, err, waitVars, log, exitVars >>

\* update_stack's handler telling "no updates" from other errors
UpdateExceptClassifies ==
    /\ pc = "update_except"
    /\ IF EndsWith(err, ToBePerformed)
       THEN /\ CallSetTags("update_done")
            /\ log' = Append(log, Call("set_tags"))
            /\ err' = << >>
            /\ UNCHANGED exitVars
       ELSE /\ SysExit
            /\ UNCHANGED << frames, ret, log, err >>
    /\ UNCHANGED << STACK_NAME, observed, provider, runsVars, provVars, waitVars >>

\* update_stack's handler: every ClientError is reported as "no updates"
\* and followed by set_tags(STACK_NAME, BILLING_ENV, TEAM)
UpdateExcept ==
    /\ pc = "update_except"
    /\ CallSetTags("update_done")
    /\ log' = Append(log, Call("set_tags"))
    /\ err' = << >>
    /\ UNCHANGED << STACK_NAME, observed, provider, runsVars, provVars, waitVars, exitVars >>

\* ret = True; return ret (on both paths)
UpdateDone ==
    /\ pc = "update_done"
    /\ ret' = [ret EXCEPT !["update_stack"] = TRUE]
    /\ ReturnTo("update_stack", TRUE)
    /\ UNCHANGED << STACK_NAME, observed, provider, runsVars, provVars, err, waitVars, exitVars >>

\* ------------------------------------------------------------------------
\* create_stack.

\* conn.create_stack(...), then wait_for_stack(STACK_NAME, 60)
CreateStack ==
    /\ pc = "create_stack"
    /\ LET req == Request("create_stack", "create_stack",
                          [StackName |-> STACK_NAME,
                           Capabilities |-> <<"CAPABILITY_IAM">>,
                           TemplateBody |-> TEMPLATE,
                           OnFailure |-> "DO_NOTHING"])
           outcomes == OnCreate(provider, req.params)
       IN  \/ \E o \in Accepted(outcomes) :
              /\ provider' = o.next
              /\ CallWait(60, "create_tags")
              /\ log' = Append(log, req)
              /\ err' = err
           \/ \E o \in Rejected(outcomes) :
              /\ provider' = o.next
              /\ pc' = "create_except"
              /\ err' = o.msg
              /\ log' = log \o <<req, Error("create_stack", "create_stack", o.msg)>>
              /\ UNCHANGED << frames, ret, waitVars >>
    /\ UNCHANGED << STACK_NAME, observed, runsVars, provVars, exitVars >>

\* create_stack inspecting the settled status before it reconciles tags
CreateTagsInspects ==
    /\ pc = "create_tags"
    /\ IF observed = "CREATE_COMPLETE"
       THEN /\ CallSetTags("create_done")
            /\ log' = Append(log, Call("set_tags"))
            /\ UNCHANGED exitVars
       ELSE /\ SysExit
            /\ UNCHANGED << frames, ret, log >>
    /\ UNCHANGED << STACK_NAME, observed, provider, runsVars, provVars, err, waitVars >>

\* set_tags(STACK_NAME, BILLING_ENV, TEAM) after the stack was created
CreateTags ==
    /\ pc = "create_tags"
    /\ CallSetTags("create_done")
    /\ log' = Append(log, Call("set_tags"))
    /\ UNCHANGED << STACK_NAME, observed, provider, runsVars, provVars, err, waitVars, exitVars >>

\* ret = True; return ret
CreateDone ==
    /\ pc = "create_done"
    /\ ret' = [ret EXCEPT !["create_stack"] = TRUE]
    /\ ReturnTo("create_stack", TRUE)
    /\ UNCHANGED << STACK_NAME, observed, provider, runsVars, provVars, err, waitVars, exitVars >>

\* create_stack's handler falls back to update_stack instead of sys.exit
CreateExceptFallsBack ==
    /\ pc = "create_except"
    /\ pc' = "update_stack"
    /\ err' = << >>
    /\ log' = Append(log, Call("update_stack"))
    /\ UNCHANGED << STACK_NAME, observed, provider, runsVars, frames, ret, provVars, waitVars, exitVars >>

\* create_stack's handler: sys.exit(err)
CreateExcept ==
    /\ pc = "create_except"
    /\ SysExit
    /\ UNCHANGED << STACK_NAME, observed, provider, runsVars, frames, ret, provVars, err, waitVars, log >>

\* ------------------------------------------------------------------------

\* ------------------------------------------------------------------------
\* Two runs against one provider (SpecRuns).

\* the state of the running run
Running ==
    [STACK_NAME |-> STACK_NAME, pc |-> pc, frames |-> frames, ret |-> ret,
     validated |-> validated, check |-> check, loop_i |-> loop_i, err |-> err,
     wait_time |-> wait_time, answers |-> answers, queries |-> queries,
     sleeps |-> sleeps, log |-> log, exited |-> exited, exitCode |-> exitCode,
     observed |-> observed]

\* the processes of the two runs take turns: the running one is suspended
\* (or has ended) and the other one goes on
Switch ==
    /\ other.pc \notin {"none", "exit"}
    /\ other' = Running
    /\ STACK_NAME' = other.STACK_NAME
    /\ pc' = other.pc
    /\ frames' = other.frames
    /\ ret' = other.ret
    /\ validated' = other.validated
    /\ check' = other.check
    /\ loop_i' = other.loop_i
    /\ err' = other.err
    /\ wait_time' = other.wait_time
    /\ answers' = other.answers
    /\ queries' = other.queries
    /\ sleeps' = other.sleeps
    /\ log' = other.log
    /\ exited' = other.exited
    /\ exitCode' = other.exitCode
    /\ observed' = other.observed
    /\ handover' = IF handover.mode = "none"
                   THEN [handover EXCEPT !.mode = IF exited THEN "succession" ELSE "interleaved",
                                         !.at = provider]
                   ELSE handover
    /\ UNCHANGED provider

\* the provider finishes the operation in progress on the stack
ProviderSettle ==
    /\ provider.kind = "stack"
    /\ provider.exists
    /\ \/ /\ provider.status = "CREATE_IN_PROGRESS"
          /\ \E s \in {"CREATE_COMPLETE", "CREATE_FAILED"} :
                provider' = [provider EXCEPT !.status = s]
       \/ /\ provider.status = "UPDATE_IN_PROGRESS"
          /\ provider' = [provider EXCEPT !.status = "UPDATE_COMPLETE"]
    /\ UNCHANGED << STACK_NAME, pc, frames, ret, provVars, err, waitVars, log,
                    exitVars, observed, runsVars >>

\* the stacks the two runs can find: none, or a settled one with the
\* template of the runs or another one, with or without the tags
InitialProviders ==
    { [kind |-> "stack", valid |-> v, exists |-> FALSE, template |-> "",
       tags |-> << >>, status |-> "NONE"] : v \in BOOLEAN }
    \cup
    { [kind |-> "stack", valid |-> TRUE, exists |-> TRUE, template |-> t,
       tags |-> g, status |-> st] :
         t \in {TEMPLATE, "previous-template-body"},
         g \in {<< >>, << [Key |-> "Billing_Env", Value |-> BILLING_ENV],
                          [Key |-> "Team", Value |-> TEAM],
                          [Key |-> "Project", Value |-> DemoName] >>},
         st \in {"CREATE_COMPLETE", "UPDATE_COMPLETE"} }

InitRuns ==
    /\ InitRun(DemoName)
    /\ provider \in InitialProviders
    /\ other = Running
    /\ handover = [mode |-> "none", first |-> provider, at |-> provider]

Next ==
    \/ Main
    \/ ValidateTemplate
    \/ ValidateExcept
    \/ ValidateReturn
    \/ DescribeStacks
    \/ Loop
    \/ ProvisionExcept
    \/ ProvisionCreated
    \/ ProvisionReturn
    \/ WaitCond
    \/ WaitDebug
    \/ WaitSleep
    \/ WaitReturn
    \/ SetTags
    \/ SetTagsRequest
    \/ SetTagsDone
    \/ SetTagsExcept
    \/ UpdateStack
    \/ UpdateRequest
    \/ UpdateTags
    \/ UpdateExcept
    \/ UpdateDone
    \/ CreateStack
    \/ CreateTags
    \/ CreateDone
    \/ CreateExcept

Spec == Init /\ [][Next]_vars

NextRuns ==
    \/ Next
    \/ Switch
    \/ ProviderSettle

SpecRuns == InitRuns /\ [][NextRuns]_vars

TypeOK ==
    /\ STACK_NAME \in StackNameValues
    /\ ret \in [Functions -> BOOLEAN]
    /\ validated \in BOOLEAN
    /\ loop_i \in 0..Len(check)
    /\ err \in ProviderMessages \cup {<< >>}
    /\ wait_time \in {0, 10, 60}
    /\ queries \in 0..MaxQueries
    /\ sleeps \in 0..MaxQueries
    /\ Len(answers) <= queries
    /\ \A i \in 1..Len(answers) : answers[i] \in Statuses
    /\ exited \in BOOLEAN
    /\ exitCode \in {0, 1}
    /\ observed \in Statuses \cup {"NONE"}

\* ------------------------------------------------------------------------
\* Vocabulary of the properties, stated on the history of the run.

LogIdx == 1..Len(log)

IsCall(i, fn) == log[i].kind = "call" /\ log[i].name = fn

IsRequest(i, api, by) ==
    log[i].kind = "request" /\ log[i].name = api /\ log[i].by = by

IsError(i, handler) == log[i].kind = "error" /\ log[i].handler = handler

IsWaitReturn(i, to) ==
    log[i].kind = "return" /\ log[i].name = "wait_for_stack" /\ log[i].to = to

Calls(fn) == Cardinality({i \in LogIdx : IsCall(i, fn)})

Requests(api, by) == Cardinality({i \in LogIdx : IsRequest(i, api, by)})

CreateRequests == Requests("create_stack", "create_stack")

UpdateRequests == Requests("update_stack", "update_stack")

TagRequests == Requests("Stack.update", "set_tags")

ProbeRequests == Requests("describe_stacks", "provision")

\* the messages of the provider that end in "does not exist"
NotExistMessages == {MsgNotExist}

\* the messages of the provider that end in "to be performed."
NothingToPerformMessages == {MsgNoUpdates}

\* the in-progress statuses: create, update, delete and rollback in
\* progress and their cleanup sub-states
InProgressStatuses ==
    { "CREATE_IN_PROGRESS", "UPDATE_IN_PROGRESS", "DELETE_IN_PROGRESS",
      "ROLLBACK_IN_PROGRESS", "UPDATE_COMPLETE_CLEANUP_IN_PROGRESS",
      "UPDATE_ROLLBACK_COMPLETE_CLEANUP_IN_PROGRESS",
      "DELETE_COMPLETE_CLEANUP_IN_PROGRESS" }

\* the settled statuses: create-complete, update-complete,
\* rollback-complete and failed
SettledStatuses ==
    { "CREATE_COMPLETE", "UPDATE_COMPLETE", "ROLLBACK_COMPLETE", "CREATE_FAILED" }

Aborted == exited /\ exitCode # 0

\* the existence probe failed with a message ending in "does not exist"
ProbeNotExist ==
    \E i \in LogIdx : IsError(i, "provision") /\ log[i].msg \in NotExistMessages

\* the existence probe failed with another message
ProbeOtherError ==
    \E i \in LogIdx : IsError(i, "provision") /\ log[i].msg \notin NotExistMessages

\* the existence probe returned the stack with the target name and the loop
\* of provision has visited it
ProbeFound ==
    /\ Len(check) = 1
    /\ check[1].StackName = STACK_NAME
    /\ loop_i = 1

ValidationFailed ==
    \E i \in LogIdx : IsError(i, "validate_template")

\* ------------------------------------------------------------------------
\* C1: when the template validates and the existence probe fails with a
\* message ending in "does not exist", create_stack is invoked exactly once
\* and update_stack never, whatever the later remote calls return (from the
\* moment provision's handler has acted).
C1_AbsentCreatesOnce ==
    (ProbeNotExist /\ pc # "provision_except")
        => (Calls("create_stack") = 1 /\ Calls("update_stack") = 0)

\* a run for an absent stack that ended after a later remote call failed
C1_Witness ==
    /\ ProbeNotExist
    /\ exited
    /\ Calls("create_stack") = 1
    /\ \E i \in LogIdx : IsError(i, "set_tags")

\* C2: when the template validates and the existence probe returns the
\* stack with the target name, update_stack is invoked exactly once and
\* create_stack never, whatever the remote calls of the update path and of
\* the tag reconciler raise, a later "does not exist" included.
C2_PresentUpdatesOnce ==
    ProbeFound => (Calls("update_stack") = 1 /\ Calls("create_stack") = 0)

\* a finished run for a present stack in which the update path met a
\* "does not exist" error
C2_Witness ==
    /\ ProbeFound
    /\ exited
    /\ Calls("update_stack") = 1
    /\ \E i \in LogIdx : IsError(i, "update_stack") /\ log[i].msg = MsgNotExist

\* C3: a template that fails remote validation ends the run with non-zero
\* exit status, and no existence probe, create request, update request,
\* tag-update request or status query is issued.
C3_ValidationFailureAborts ==
    ValidationFailed =>
        /\ \A i \in LogIdx : log[i].kind = "request" => log[i].name = "validate_template"
        /\ \/ pc = "validate_except" /\ ~exited
           \/ Aborted

C3_Witness == ValidationFailed /\ Aborted

\* C4: when the existence probe fails with a message that does not end in
\* "does not exist", the run aborts with non-zero exit status and neither a
\* create, an update nor a tag-update request is issued.
C4_ProbeErrorAborts ==
    ProbeOtherError =>
        /\ CreateRequests = 0 /\ UpdateRequests = 0 /\ TagRequests = 0
        /\ Calls("create_stack") = 0 /\ Calls("update_stack") = 0
        /\ \/ pc = "provision_except" /\ ~exited
           \/ Aborted

C4_Witness ==
    /\ Aborted
    /\ \E i \in LogIdx : IsError(i, "provision") /\ log[i].msg = MsgDenied

\* C5: wait_for_stack ends on every settled status: after a status query of
\* the loop condition the waiter returns if the status is settled and keeps
\* waiting only if it is not.
C5_SettledStatusEndsWait ==
    pc \in {"wait_debug", "wait_return"} =>
        (answers[Len(answers)] \in SettledStatuses <=> pc = "wait_return")

\* C6: wait_for_stack returns only when its most recent status query
\* reported a status outside the in-progress set: at the return every query
\* of the call was answered and the last answer is not an in-progress status.
C6_ReturnsOnlyWhenSettled ==
    pc = "wait_return" =>
        /\ queries = Len(answers)
        /\ queries >= 1
        /\ answers[Len(answers)] \notin InProgressStatuses

\* a return after the waiter waited on an in-progress status
C6_Witness ==
    /\ pc = "wait_return"
    /\ Len(answers) > 1
    /\ answers[1] \in InProgressStatuses

\* the answers of a scripted provider: n in-progress statuses, then a
\* settled status from then on
LeadingInProgress(a) ==
    Cardinality({k \in 1..Len(a) : \A j \in 1..k : a[j] \in InProgressStatuses})

Scripted(a) ==
    /\ Len(a) > LeadingInProgress(a)
    /\ \A j \in (LeadingInProgress(a) + 1)..Len(a) : a[j] \in SettledStatuses

\* C7: against a provider that answers n status queries with an in-progress
\* status and then with a settled status, one call of wait_for_stack issues
\* exactly n+1 status queries and sleeps exactly n times.
C7_ScriptedQueriesAndSleeps ==
    (pc = "wait_return" /\ Scripted(answers)) =>
        /\ queries = LeadingInProgress(answers) + 1
        /\ sleeps = LeadingInProgress(answers)

\* C8: set_tags is never started before a create request or an update
\* request has been issued in the same run.
C8_NoTagsBeforeMutation ==
    \A i \in LogIdx :
        IsCall(i, "set_tags") =>
            \E j \in 1..(i - 1) :
                \/ IsRequest(j, "create_stack", "create_stack")
                \/ IsRequest(j, "update_stack", "update_stack")

\* the outcomes after which tags are reconciled: the wait after an accepted
\* create returned, the wait after an accepted update returned, an error
\* was raised in the update path ("no updates" or any other)
IsOutcome(i) ==
    \/ IsWaitReturn(i, "create_tags")
    \/ IsWaitReturn(i, "update_tags")
    \/ IsError(i, "update_stack")

\* C9: set_tags is invoked after every create whose request was accepted
\* and whose wait returned, and after every outcome of the update path
\* (as soon as the step that follows the outcome has been taken).
C9_TagsAfterEveryOutcome ==
    pc \notin {"create_tags", "update_tags", "update_except"} =>
        \A i \in LogIdx :
            IsOutcome(i) => \E j \in (i + 1)..Len(log) : IsCall(j, "set_tags")

\* set_tags was invoked after the update request was rejected with an error
\* other than "no updates"
C9_Witness ==
    \E i \in LogIdx :
        /\ IsError(i, "update_stack")
        /\ log[i].name = "update_stack"
        /\ log[i].msg = MsgDenied
        /\ \E j \in (i + 1)..Len(log) : IsCall(j, "set_tags")

\* the tag-update request was rejected with "... to be performed."
TagsNothingToPerform ==
    \E i \in LogIdx :
        /\ IsError(i, "set_tags")
        /\ log[i].name = "Stack.update"
        /\ log[i].msg \in NothingToPerformMessages

\* the tag-update request or a status wait of set_tags failed with another
\* error
TagsOtherError ==
    \E i \in LogIdx :
        IsError(i, "set_tags") /\ log[i].msg \notin NothingToPerformMessages

\* C10: a tag-update request rejected with a message ending in
\* "to be performed." does not abort the run, which ends with exit code 0;
\* any other error of the tag-update request or of a status wait of
\* set_tags aborts the run with non-zero exit status.
C10_TagErrorsClassified ==
    /\ TagsNothingToPerform =>
          /\ pc # "set_tags_except" => Calls("set_tags") = 1
          /\ exited => exitCode = 0
    /\ TagsOtherError =>
          \/ pc = "set_tags_except" /\ ~exited
          \/ Aborted

\* a run that ended with exit code 0 after the tag-update request was
\* rejected with "... to be performed."
C10_Witness == TagsNothingToPerform /\ exited /\ exitCode = 0

\* a run that aborted on another error in set_tags
C10_WitnessAbort == TagsOtherError /\ Aborted

\* the create request itself was rejected
CreateRejected ==
    \E i \in LogIdx : IsError(i, "create_stack") /\ log[i].name = "create_stack"

\* C12: when the provider rejects the create request with any error, the
\* run aborts with non-zero exit status, no tag-update request is issued
\* and no update request is issued as a fallback.
C12_CreateRejectionAborts ==
    CreateRejected =>
        /\ TagRequests = 0 /\ UpdateRequests = 0
        /\ Calls("set_tags") = 0 /\ Calls("update_stack") = 0
        /\ \/ pc = "create_except" /\ ~exited
           \/ Aborted

C12_Witness == CreateRejected /\ Aborted

\* the remote calls of the run in their order
IsRequestEvent(e) == e.kind = "request"

RemoteCalls == SelectSeq(log, IsRequestEvent)

Errors == Cardinality({i \in LogIdx : log[i].kind = "error"})

IsPrefix(a, b) == Len(a) <= Len(b) /\ SubSeq(b, 1, Len(a)) = a

\* the remote calls of a run that creates the stack and meets no failure:
\* validation, probe, create request, the polls of the wait after the
\* create, the polls of the wait before the tag update, the tag-update
\* request, the polls of the wait after it
CreateRunCalls ==
    << [kind |-> "request", name |-> "validate_template", by |-> "validate_template",
        params |-> [TemplateBody |-> TEMPLATE]],
       [kind |-> "request", name |-> "describe_stacks", by |-> "provision",
        params |-> [StackName |-> STACK_NAME]],
       [kind |-> "request", name |-> "create_stack", by |-> "create_stack",
        params |-> [StackName |-> STACK_NAME,
                    Capabilities |-> <<"CAPABILITY_IAM">>,
                    TemplateBody |-> TEMPLATE,
                    OnFailure |-> "DO_NOTHING"]],
       [kind |-> "request", name |-> "describe_stacks", by |-> "wait_for_stack",
        params |-> [StackName |-> STACK_NAME]],
       [kind |-> "request", name |-> "describe_stacks", by |-> "wait_for_stack",
        params |-> [StackName |-> STACK_NAME]],
       [kind |-> "request", name |-> "Stack.update", by |-> "set_tags",
        params |-> [StackName |-> STACK_NAME,
                    Capabilities |-> <<"CAPABILITY_IAM">>,
                    UsePreviousTemplate |-> TRUE,
                    Tags |-> << [Key |-> "Billing_Env", Value |-> BILLING_ENV],
                                [Key |-> "Team", Value |-> TEAM],
                                [Key |-> "Project", Value |-> STACK_NAME] >>]],
       [kind |-> "request", name |-> "describe_stacks", by |-> "wait_for_stack",
        params |-> [StackName |-> STACK_NAME]] >>

\* C13: in a run where the stack is absent, the template is valid and no
\* remote call fails but the probe with "does not exist", the remote calls
\* are, in this order: validate-template, the probe, one create request
\* (CAPABILITY_IAM, OnFailure = DO_NOTHING), status polls, status polls and
\* one tag-update request carrying {Billing_Env, Team, Project = stack
\* name}, status polls; the process then exits with code 0.
C13_CreateRunOrder ==
    (ProbeNotExist /\ Errors = 1) =>
        /\ IsPrefix(RemoteCalls, CreateRunCalls)
        /\ exited => (exitCode = 0 /\ RemoteCalls = CreateRunCalls)

C13_Witness == ProbeNotExist /\ Errors = 1 /\ exited /\ RemoteCalls = CreateRunCalls

\* C14: whenever set_tags, create_stack or update_stack returns, it returns
\* true.
C14_ReturnsTrue ==
    \A i \in LogIdx :
        (log[i].kind = "return" /\ log[i].name \in {"set_tags", "create_stack", "update_stack"})
            => log[i].value = TRUE

LastIsWaitReturn == Len(log) > 0 /\ log[Len(log)].kind = "return"
                                 /\ log[Len(log)].name = "wait_for_stack"

\* C15: the update request and the tag-update request are issued only
\* right after a call of wait_for_stack has returned, the latest status
\* query having reported a status outside the in-progress set.
C15_MutationsOnlyAfterWait ==
    [][ (UpdateRequests' + TagRequests' > UpdateRequests + TagRequests)
          => (LastIsWaitReturn /\ observed \in Statuses \ InProgressStatuses) ]_vars

\* a finished run in which both requests were issued
C15_Witness == exited /\ UpdateRequests = 1 /\ TagRequests = 1

\* the wait after an accepted create or update has just returned
PostMutationWaitReturned ==
    /\ Len(log) > 0
    /\ IsWaitReturn(Len(log), "create_tags") \/ IsWaitReturn(Len(log), "update_tags")

TagRequestParams ==
    [StackName |-> STACK_NAME,
     Capabilities |-> <<"CAPABILITY_IAM">>,
     UsePreviousTemplate |-> TRUE,
     Tags |-> << [Key |-> "Billing_Env", Value |-> BILLING_ENV],
                 [Key |-> "Team", Value |-> TEAM],
                 [Key |-> "Project", Value |-> STACK_NAME] >>]

\* C16: the status in which the stack settled after a create or an update
\* is not inspected: once the wait after the mutation has returned, the
\* next step invokes set_tags whatever the status, and every tag-update
\* request carries the same parameters.
C16_SettledStatusNotInspected ==
    /\ [][ PostMutationWaitReturned
             => (pc' = "set_tags" /\ Calls("set_tags")' = Calls("set_tags") + 1) ]_vars
    /\ [](\A i \in LogIdx :
             IsRequest(i, "Stack.update", "set_tags") => log[i].params = TagRequestParams)

\* set_tags was invoked after the created stack settled in CREATE_FAILED
C16_Witness ==
    /\ pc = "set_tags"
    /\ observed = "CREATE_FAILED"
    /\ Len(log) > 1
    /\ IsCall(Len(log), "set_tags")
    /\ IsWaitReturn(Len(log) - 1, "create_tags")

\* C17: an error of the update request other than "no updates", or an
\* error of a status wait of update_stack, does not abort the run at that
\* point: set_tags is invoked next, update_stack returns true, and the run
\* ends with non-zero status only through an error inside set_tags.
C17_UpdateErrorsSwallowed ==
    \A i \in LogIdx :
        IsError(i, "update_stack") =>
            /\ pc # "update_except" => \E j \in (i + 1)..Len(log) : IsCall(j, "set_tags")
            /\ Aborted => \E j \in (i + 1)..Len(log) : IsError(j, "set_tags")
            /\ \A j \in LogIdx :
                  (log[j].kind = "return" /\ log[j].name = "update_stack") => log[j].value = TRUE

\* a run that ended with exit code 0 after the update request was rejected
\* with an error other than "no updates"
C17_Witness ==
    /\ exited /\ exitCode = 0
    /\ \E i \in LogIdx :
          /\ IsError(i, "update_stack")
          /\ log[i].name = "update_stack"
          /\ log[i].msg = MsgDenied

\* C18: in every run at most one create or update request and at most one
\* tag-update request are issued, and set_tags, create_stack and
\* update_stack each run at most once.
C18_AtMostOneMutation ==
    /\ CreateRequests + UpdateRequests <= 1
    /\ TagRequests <= 1
    /\ Calls("set_tags") <= 1
    /\ Calls("create_stack") <= 1
    /\ Calls("update_stack") <= 1

\* a finished run with an update request, a tag-update request and errors
\* handled on the way
C18_Witness ==
    /\ exited
    /\ UpdateRequests = 1 /\ TagRequests = 1
    /\ Errors >= 2

\* ------------------------------------------------------------------------
\* Two runs (SpecRuns): the properties are stated on the histories of the
\* running run and of the other one.

RunIdx(r) == 1..Len(r.log)

RunCalled(r, fn) ==
    \E i \in RunIdx(r) : r.log[i].kind = "call" /\ r.log[i].name = fn

RunRequests(r, api, by) ==
    Cardinality({i \in RunIdx(r) :
        r.log[i].kind = "request" /\ r.log[i].name = api /\ r.log[i].by = by})

\* the messages of the errors the request api of the run raised
RunErrors(r, api) ==
    {r.log[i].msg : i \in {j \in RunIdx(r) :
        r.log[j].kind = "error" /\ r.log[j].name = api}}

RunAborted(r) == r.exited /\ r.exitCode # 0

RunSucceeded(r) == r.exited /\ r.exitCode = 0

\* the update request of the run was answered "no updates"
RunNoUpdates(r) ==
    /\ RunRequests(r, "update_stack", "update_stack") = 1
    /\ RunErrors(r, "update_stack") = {MsgNoUpdates}

\* the first run ended before the second began, and the first found the
\* stack present, settled, with the template of the runs
UpdateTwiceInSuccession ==
    /\ handover.mode = "succession"
    /\ handover.first.exists
    /\ handover.first.template = TEMPLATE

\* C11: when the update path runs twice in succession against an existing
\* stack whose template is unchanged, the update request is answered "no
\* updates" in both runs, both runs exit with code 0, and during the second
\* run the template, the tags and the settled status of the stack stay as
\* the first run left them.
C11_UpdateTwiceIdempotent ==
    UpdateTwiceInSuccession =>
        /\ RunSucceeded(other) /\ RunNoUpdates(other)
        /\ ~RunAborted(Running)
        /\ RunRequests(Running, "update_stack", "update_stack") = 1 => RunNoUpdates(Running)
        /\ exited => RunNoUpdates(Running)
        /\ provider.template = handover.at.template
        /\ provider.tags = handover.at.tags
        /\ provider.status = handover.at.status
        /\ provider.status \notin wait_list

\* both runs ended: the first one applied the tags the stack lacked, the
\* second one found nothing to perform
C11_Witness ==
    /\ UpdateTwiceInSuccession
    /\ exited /\ other.exited
    /\ RunNoUpdates(Running) /\ RunNoUpdates(other)
    /\ handover.first.tags = << >>
    /\ provider.tags = Tags(DemoName, BILLING_ENV, TEAM)
    /\ RunErrors(Running, "Stack.update") = {MsgNoUpdates}
    /\ RunErrors(other, "Stack.update") = {}

\* the existence probe of the run reported "does not exist"
RunProbeNotExist(r) == RunErrors(r, "describe_stacks") \cap NotExistMessages # {}

RunCreateRequested(r) == RunRequests(r, "create_stack", "create_stack") = 1

RunCreateRejected(r) == RunErrors(r, "create_stack") # {}

RunCreateAccepted(r) == RunCreateRequested(r) /\ ~RunCreateRejected(r)

\* the run is past its create request
RunPastCreate(r) == r.exited \/ r.pc \notin {"provision_except", "create_stack"}

BothProbesNotExist == RunProbeNotExist(Running) /\ RunProbeNotExist(other)

\* the run whose create request was rejected is in the handler of
\* create_stack or has aborted, and has neither entered the update path nor
\* issued a tag-update request
RejectedRunAborts(r) ==
    RunCreateRejected(r) =>
        /\ \/ r.pc = "create_except" /\ ~r.exited
           \/ RunAborted(r)
        /\ ~RunCalled(r, "update_stack") /\ ~RunCalled(r, "set_tags")
        /\ RunRequests(r, "update_stack", "update_stack") = 0
        /\ RunRequests(r, "Stack.update", "set_tags") = 0

\* C19: when both runs for the same absent stack had "does not exist" from
\* their existence probe, each run issues one create request, the provider
\* accepts at most one of the two, and the run whose create request is
\* rejected aborts with non-zero exit status without entering the update
\* path or issuing a tag-update request.
C19_RacingCreates ==
    BothProbesNotExist =>
        /\ RunPastCreate(Running) => RunCreateRequested(Running)
        /\ RunPastCreate(other) => RunCreateRequested(other)
        /\ ~(RunCreateAccepted(Running) /\ RunCreateAccepted(other))
        /\ RejectedRunAborts(Running)
        /\ RejectedRunAborts(other)

\* both runs ended: one created the stack and exited with code 0, the
\* other had its create request rejected and aborted
C19_Witness ==
    /\ BothProbesNotExist
    /\ handover.mode = "interleaved"
    /\ exited /\ other.exited
    /\ \/ RunCreateAccepted(Running) /\ RunSucceeded(Running)
          /\ RunCreateRejected(other) /\ RunAborted(other)
       \/ RunCreateAccepted(other) /\ RunSucceeded(other)
          /\ RunCreateRejected(Running) /\ RunAborted(Running)

====
